---- MODULE Spec2Model ----
(***************************************************************************)
(* The appointment microservice: the appointment store, creation with id   *)
(* generation and conflict detection, status updates, the slot calculator  *)
(* and the role-scoped queries of the router.                              *)
(*                                                                         *)
(* A stored row keeps the columns some decision reads: appointment_id,     *)
(* doctor_id, patient_id, appointment_date, the two times and status.      *)
(* facility_id, doctor_name, patient_name, purpose_of_visit, description,  *)
(* created_at and the integer primary key are copied from the request or   *)
(* assigned by the database and are read by no condition of crud.py; they  *)
(* travel with patient_id and are not repeated here.                       *)
(*                                                                         *)
(* An appointment_id "APT0001" is kept as the sequence of its digits after *)
(* the constant prefix, <<0,0,0,1>>, so that the string order of the       *)
(* ORDER BY and the int()/zfill() conversions are computed, not assumed.   *)
(* Times of day are minutes after midnight.                                *)
(***************************************************************************)
EXTENDS Integers, Sequences, FiniteSets, TLC

VARIABLES store, resp, pc, req, next_id, result

vars == <<store, resp, pc, req, next_id, result>>

(***************************************************************************)
(* Bounds and input domains                                                *)
(***************************************************************************)
\* Rows the store may hold before the model stops accepting creations.
MaxAppts == 2

Hm(h, m) == 60 * h + m

\* date.today() of the validator; Today - 1 is a past date.
Today == 1

Req(doctor_id, patient_id, appointment_date, start_time, end_time) ==
    [doctor_id |-> doctor_id, patient_id |-> patient_id,
     appointment_date |-> appointment_date,
     appointment_start_time |-> start_time,
     appointment_end_time |-> end_time]

\* Request bodies of POST /api/appointments/. For doctor D1 today: 09:00 to
\* 10:00, 09:30 to 10:30 (overlaps both neighbours, starts inside a slot) and
\* 10:00 to 11:00 (back to back with the first); the first range again for
\* another doctor and for another date; and three bodies the validators
\* refuse (end before start, end equal to start, a past date).
Requests ==
    {Req("D1", "P1", Today, Hm(9, 0), Hm(10, 0)),
     Req("D1", "P2", Today, Hm(9, 30), Hm(10, 30)),
     Req("D1", "P1", Today, Hm(10, 0), Hm(11, 0)),
     Req("D2", "P2", Today, Hm(9, 0), Hm(10, 0)),
     Req("D1", "P2", Today + 1, Hm(9, 0), Hm(10, 0)),
     Req("D1", "P1", Today, Hm(10, 0), Hm(9, 0)),
     Req("D1", "P1", Today, Hm(9, 0), Hm(9, 0)),
     Req("D1", "P1", Today - 1, Hm(9, 0), Hm(10, 0))}

Doctors == {a.doctor_id : a \in Requests}
Patients == {a.patient_id : a \in Requests}
Dates == {a.appointment_date : a \in Requests}

Status == {"SCHEDULED", "COMPLETED", "CANCELLED", "PENDING"}

(***************************************************************************)
(* appointment_id strings                                                  *)
(***************************************************************************)
\* Width of the zero padding in crud.py: str(next_id).zfill(4).
IdWidth == 4

RECURSIVE str(_)
\* str(n): the decimal digits of a natural number.
str(n) == IF n < 10 THEN <<n>> ELSE Append(str(n \div 10), n % 10)

RECURSIVE zfill(_, _)
\* s.zfill(w): zeros on the left up to width w, never a truncation.
zfill(s, w) == IF Len(s) >= w THEN s ELSE zfill(<<0>> \o s, w)

RECURSIVE int(_)
\* int(s): the number a digit string denotes.
int(s) == IF Len(s) = 0 THEN 0
          ELSE 10 * int(SubSeq(s, 1, Len(s) - 1)) + s[Len(s)]

RECURSIVE StrLess(_, _)
\* a < b for strings, as the database orders a String column: by the first
\* differing character, a proper prefix first.
StrLess(a, b) ==
    IF Len(a) = 0 THEN Len(b) > 0
    ELSE IF Len(b) = 0 THEN FALSE
    ELSE IF a[1] # b[1] THEN a[1] < b[1]
    ELSE StrLess(Tail(a), Tail(b))


(***************************************************************************)
(* app/models/appointments.py and the queries of app/crud.py               *)
(***************************************************************************)
\* The row create_appointment builds from a request.
Appointment(appointment_id, a, status) ==
    [appointment_id |-> appointment_id,
     doctor_id |-> a.doctor_id,
     patient_id |-> a.patient_id,
     appointment_date |-> a.appointment_date,
     appointment_start_time |-> a.appointment_start_time,
     appointment_end_time |-> a.appointment_end_time,
     status |-> status]

\* db.query(Appointment).order_by(Appointment.appointment_id.desc()).first():
\* the index of the row whose id string is last in string order, 0 for None.
last_appointment(db) ==
    IF Len(db) = 0 THEN 0
    ELSE CHOOSE i \in 1..Len(db) :
             \A j \in 1..Len(db) :
                 ~StrLess(db[i].appointment_id, db[j].appointment_id)

\* The id without the zero padding: str(next_id) alone.
appointment_id_unpadded(db) ==
    LET last == last_appointment(db)
        nxt == IF last # 0 THEN int(db[last].appointment_id) + 1 ELSE 1
    IN  str(nxt)

\* The id create_appointment computes from the last row.
appointment_id_for(db) ==
    LET last == last_appointment(db)
        nxt == IF last # 0 THEN int(db[last].appointment_id) + 1 ELSE 1
    IN  zfill(str(nxt), IdWidth)

\* The filter of the conflict query, for one row e and the request a.
ConflictFilter(e, a) ==
    /\ e.doctor_id = a.doctor_id
    /\ e.appointment_date = a.appointment_date
    /\ e.status # "CANCELLED"
    /\ e.appointment_start_time < a.appointment_end_time
    /\ e.appointment_end_time > a.appointment_start_time

\* Whether the conflict query's .first() returns a row.
existing_appointment(db, a) ==
    \E i \in 1..Len(db) : ConflictFilter(db[i], a)

\* A column declared without unique=True: no INSERT is refused.
UniqueViolation_absent(db, row) == FALSE

\* Column(String(50), unique=True): the INSERT of a row whose appointment_id
\* is already stored raises IntegrityError.
UniqueViolation(db, row) ==
    \E i \in 1..Len(db) : db[i].appointment_id = row.appointment_id

\* An except branch without db.rollback(): the row stays although the
\* caller is told 500.
Commit_without_rollback(db, row) ==
    IF UniqueViolation(db, row)
    THEN [db |-> Append(db, row), status_code |-> 500,
          detail |-> "Internal server error", body |-> <<>>]
    ELSE [db |-> Append(db, row), status_code |-> 200, detail |-> "",
          body |-> <<row>>]

\* db.add; db.commit; db.refresh, or the except branch (rollback, 500).
Commit(db, row) ==
    IF UniqueViolation(db, row)
    THEN [db |-> db, status_code |-> 500, detail |-> "Internal server error",
          body |-> <<>>]
    ELSE [db |-> Append(db, row), status_code |-> 200, detail |-> "",
          body |-> <<row>>]

\* create_appointment, run without interleaving. status_code 200 stands for
\* a normal return, any other for the HTTPException raised.
create_appointment(db, a) ==
    LET appointment_id == appointment_id_for(db)
    IN  IF existing_appointment(db, a)
        THEN [db |-> db, status_code |-> 400,
              detail |-> "Doctor already has an appointment scheduled during this time",
              body |-> <<>>]
        ELSE Commit(db, Appointment(appointment_id, a, "SCHEDULED"))

\* get_appointment_by_id: the index of the row with that id, 0 when the
\* query returns None and HTTPException(404) is raised.
get_appointment_by_id(db, appointment_id) ==
    IF \E i \in 1..Len(db) : db[i].appointment_id = appointment_id
    THEN CHOOSE i \in 1..Len(db) : db[i].appointment_id = appointment_id
    ELSE 0

\* A cancellation that deletes the row instead of marking it.
update_appointment_status_deleting(db, appointment_id, new_status) ==
    LET i == get_appointment_by_id(db, appointment_id)
    IN  IF i = 0
        THEN [db |-> db, status_code |-> 500,
              detail |-> "Error updating appointment status", body |-> <<>>]
        ELSE IF new_status = "CANCELLED"
        THEN [db |-> SubSeq(db, 1, i - 1) \o SubSeq(db, i + 1, Len(db)),
              status_code |-> 200, detail |-> "", body |-> <<>>]
        ELSE LET db2 == [db EXCEPT ![i].status = new_status]
             IN  [db |-> db2, status_code |-> 200, detail |-> "",
                  body |-> <<db2[i]>>]

\* An update with a transition guard: COMPLETED and CANCELLED are final.
update_appointment_status_guarded(db, appointment_id, new_status) ==
    LET i == get_appointment_by_id(db, appointment_id)
    IN  IF i = 0
        THEN [db |-> db, status_code |-> 500,
              detail |-> "Error updating appointment status", body |-> <<>>]
        ELSE IF db[i].status \in {"COMPLETED", "CANCELLED"}
        THEN [db |-> db, status_code |-> 400,
              detail |-> "Invalid status transition", body |-> <<>>]
        ELSE LET db2 == [db EXCEPT ![i].status = new_status]
             IN  [db |-> db2, status_code |-> 200, detail |-> "",
                  body |-> <<db2[i]>>]

\* update_appointment_status. The 404 of get_appointment_by_id is raised
\* inside the try block and HTTPException is an Exception, so the except
\* branch rolls back and raises the 500 in its place.
update_appointment_status(db, appointment_id, new_status) ==
    LET i == get_appointment_by_id(db, appointment_id)
    IN  IF i = 0
        THEN [db |-> db, status_code |-> 500,
              detail |-> "Error updating appointment status", body |-> <<>>]
        ELSE LET db2 == [db EXCEPT ![i].status = new_status]
             IN  [db |-> db2, status_code |-> 200, detail |-> "",
                  body |-> <<db2[i]>>]

(***************************************************************************)
(* app/schemas/appointments.py                                             *)
(***************************************************************************)
\* validate_appointment_date: the date must not be before today.
validate_appointment_date(a) == ~(a.appointment_date < Today)

\* A validator that compares with < and lets end = start through.
validate_appointment_time_strict(a) ==
    ~(a.appointment_end_time < a.appointment_start_time)

\* validate_appointment_time: the end must be after the start.
validate_appointment_time(a) ==
    ~(a.appointment_end_time <= a.appointment_start_time)

\* Whether AppointmentRequest accepts the body.
AppointmentRequest(a) ==
    validate_appointment_date(a) /\ validate_appointment_time(a)

(***************************************************************************)
(* The slot calculator of app/crud.py                                      *)
(***************************************************************************)
\* TimeSlot(start_time=time(hour=i), end_time=time(hour=i+1)).
TimeSlot(i) == [start_time |-> Hm(i, 0), end_time |-> Hm(i + 1, 0)]

\* [TimeSlot(i) for i in range(9, 17)].
working_hours == [k \in 1..(17 - 9) |-> TimeSlot(9 + k - 1)]

\* booked_slots without the status filter: CANCELLED rows count as booked.
booked_slots_with_cancelled(db, doctor_id, date) ==
    LET Keep(e) == /\ e.doctor_id = doctor_id
                   /\ e.appointment_date = date
    IN  SelectSeq(db, Keep)

\* The rows of the doctor on the date whose status is not CANCELLED.
booked_slots(db, doctor_id, date) ==
    LET Keep(e) == /\ e.doctor_id = doctor_id
                   /\ e.appointment_date = date
                   /\ e.status # "CANCELLED"
    IN  SelectSeq(db, Keep)

\* An inner loop that tests the whole slot: the half-open intervals overlap.
is_available_overlap(slot, booked) ==
    ~\E b \in 1..Len(booked) :
        /\ slot.start_time < booked[b].appointment_end_time
        /\ slot.end_time > booked[b].appointment_start_time

\* An inner loop that compares the starts with > instead of >=.
is_available_after(slot, booked) ==
    ~\E b \in 1..Len(booked) :
        /\ slot.start_time > booked[b].appointment_start_time
        /\ slot.start_time < booked[b].appointment_end_time

\* The inner loop: no booked row has the slot's start in [start, end).
is_available(slot, booked) ==
    ~\E b \in 1..Len(booked) :
        /\ slot.start_time >= booked[b].appointment_start_time
        /\ slot.start_time < booked[b].appointment_end_time

RECURSIVE available_slots(_, _)
\* The outer loop over working_hours, appending the available slots.
available_slots(slots, booked) ==
    IF Len(slots) = 0 THEN <<>>
    ELSE LET rest == available_slots(Tail(slots), booked)
         IN  IF is_available(Head(slots), booked)
             THEN <<Head(slots)>> \o rest
             ELSE rest

get_available_time_slots(db, doctor_id, date) ==
    available_slots(working_hours, booked_slots(db, doctor_id, date))

(***************************************************************************)
(* The listing and counting queries of app/crud.py                         *)
(***************************************************************************)
get_all_appointments(db) == db

get_appointments_by_patient_id(db, patient_id) ==
    LET Keep(e) == e.patient_id = patient_id IN SelectSeq(db, Keep)

get_appointment_count_by_patient_and_status(db, patient_id, status) ==
    LET Keep(e) == e.patient_id = patient_id /\ e.status = status
    IN  Len(SelectSeq(db, Keep))

(***************************************************************************)
(* app/routers/appointments.py                                             *)
(***************************************************************************)
\* The {username, role} pairs the auth service resolves credentials to:
\* two patients and one member of staff.
Users ==
    {[username |-> "P1", role |-> "PATIENT"],
     [username |-> "P2", role |-> "PATIENT"],
     [username |-> "S1", role |-> "STAFF"]}

\* get_current_user under Depends (no scopes: any authenticated caller) or
\* Security(scopes=[...]) (the caller's role must be one of the scopes).
get_current_user(current_user, scopes) ==
    scopes = {} \/ current_user.role \in scopes

\* The HTTP response: the handler's name, the status code and the body.
Response(op, code, body) == [op |-> op, code |-> code, body |-> body]

\* POST /, for a caller get_current_user admitted: the body is validated
\* first (422 on failure), then crud runs; 201 on a normal return.
create_new_appointment(db, appointment) ==
    IF ~AppointmentRequest(appointment)
    THEN [db |-> db, status_code |-> 422, detail |-> "validation error",
          body |-> <<>>]
    ELSE LET r == create_appointment(db, appointment)
         IN  [r EXCEPT !.status_code = IF @ = 200 THEN 201 ELSE @]

\* PUT /id/{appointment_id}/status, for a caller get_current_user admitted.
update_status(db, appointment_id, status) ==
    update_appointment_status(db, appointment_id, status)

\* GET /: every row, for any authenticated caller.
get_appointments(db, current_user) ==
    IF ~get_current_user(current_user, {})
    THEN Response("get_appointments", 403, <<>>)
    ELSE Response("get_appointments", 200, get_all_appointments(db))

\* GET /id/{appointment_id}: one row, for any authenticated caller.
get_appointment(db, appointment_id, current_user) ==
    LET i == get_appointment_by_id(db, appointment_id)
    IN  IF ~get_current_user(current_user, {})
        THEN Response("get_appointment", 403, <<>>)
        ELSE IF i = 0
        THEN Response("get_appointment", 404, <<>>)
        ELSE Response("get_appointment", 200, <<db[i]>>)

\* GET /patient/{patient_id}.
get_patient_appointments(db, patient_id, current_user) ==
    IF ~get_current_user(current_user, {"ADMIN", "DOCTOR", "STAFF", "PATIENT"})
    THEN Response("get_patient_appointments", 403, <<>>)
    ELSE IF current_user.role = "PATIENT" /\ current_user.username # patient_id
    THEN Response("get_patient_appointments", 403, <<>>)
    ELSE Response("get_patient_appointments", 200,
                  get_appointments_by_patient_id(db, patient_id))

\* GET /patient/{patient_id}/status/{status}: a count, no rows.
get_appointment_count_for_patient(db, patient_id, status, current_user) ==
    IF ~get_current_user(current_user, {"ADMIN", "DOCTOR", "STAFF", "PATIENT"})
    THEN Response("get_appointment_count_for_patient", 403, <<>>)
    ELSE IF current_user.role = "PATIENT" /\ current_user.username # patient_id
    THEN Response("get_appointment_count_for_patient", 403, <<>>)
    ELSE Response("get_appointment_count_for_patient", 200,
                  <<get_appointment_count_by_patient_and_status(
                        db, patient_id, status)>>)

\* GET /slots/available: time slots, no rows.
get_available_slots(db, doctor_id, appointment_date, current_user) ==
    IF ~get_current_user(current_user, {})
    THEN Response("get_available_slots", 403, <<>>)
    ELSE Response("get_available_slots", 200,
                  get_available_time_slots(db, doctor_id, appointment_date))

(***************************************************************************)
(* The service handling one request at a time                              *)
(***************************************************************************)
Procs == {"w1", "w2", "w3"}

NoRequest == CHOOSE a \in Requests : TRUE

\* The ids a caller may name: every stored one and one that is not stored.
AppointmentIds ==
    {store[i].appointment_id : i \in 1..Len(store)} \cup {<<0, 0, 0, 0>>}

Idle ==
    /\ pc = [p \in Procs |-> "idle"]
    /\ req = [p \in Procs |-> NoRequest]
    /\ next_id = [p \in Procs |-> <<>>]
    /\ result = [p \in Procs |-> 0]

\* What the caller of the last request got: the handler and the status code.
Seen(r) == [op |-> r.op, code |-> r.code]

Init ==
    /\ store = <<>>
    /\ resp = [op |-> "none", code |-> 0]
    /\ Idle

CreateNewAppointment ==
    \E a \in Requests :
        /\ LET r == create_new_appointment(store, a)
           IN  /\ Len(r.db) <= MaxAppts
               /\ store' = r.db
               /\ resp' = [op |-> "create_new_appointment",
                           code |-> r.status_code]
        /\ UNCHANGED <<pc, req, next_id, result>>

UpdateStatus ==
    \E id \in AppointmentIds, s \in Status :
        /\ LET r == update_status(store, id, s)
           IN  /\ store' = r.db
               /\ resp' = [op |-> "update_status", code |-> r.status_code]
        /\ UNCHANGED <<pc, req, next_id, result>>

GetAppointments ==
    \E u \in Users :
        /\ resp' = Seen(get_appointments(store, u))
        /\ UNCHANGED <<store, pc, req, next_id, result>>

GetAppointment ==
    \E id \in AppointmentIds, u \in Users :
        /\ resp' = Seen(get_appointment(store, id, u))
        /\ UNCHANGED <<store, pc, req, next_id, result>>

GetPatientAppointments ==
    \E patient_id \in Patients, u \in Users :
        /\ resp' = Seen(get_patient_appointments(store, patient_id, u))
        /\ UNCHANGED <<store, pc, req, next_id, result>>

GetAppointmentCountForPatient ==
    \E patient_id \in Patients, s \in Status, u \in Users :
        /\ resp' = Seen(get_appointment_count_for_patient(
                            store, patient_id, s, u))
        /\ UNCHANGED <<store, pc, req, next_id, result>>

GetAvailableSlots ==
    \E doctor_id \in Doctors, d \in Dates, u \in Users :
        /\ resp' = Seen(get_available_slots(store, doctor_id, d, u))
        /\ UNCHANGED <<store, pc, req, next_id, result>>

Next ==
    \/ CreateNewAppointment
    \/ UpdateStatus
    \/ GetAppointments
    \/ GetAppointment
    \/ GetPatientAppointments
    \/ GetAppointmentCountForPatient
    \/ GetAvailableSlots

Spec == Init /\ [][Next]_vars

(***************************************************************************)
(* A store with a long history                                             *)
(***************************************************************************)
\* The store after 10^IdWidth - 1 creations: its last row carries the largest
\* id that fits the padding, APT9999. The earlier rows APT0001..APT9998 are
\* left out: they belong to doctors and dates outside Requests, so no
\* conflict query or slot query of the model selects them, and the last-id
\* query returns the greatest id string, which they never are.
InitHistory ==
    /\ \E a \in Requests, s \in Status :
           /\ AppointmentRequest(a)
           /\ store = <<Appointment(zfill(str(10 ^ IdWidth - 1), IdWidth), a, s)>>
    /\ resp = [op |-> "none", code |-> 0]
    /\ Idle

SpecHistory == InitHistory /\ [][Next]_vars

(***************************************************************************)
(* Concurrent creations                                                    *)
(*                                                                         *)
(* Worker processes share the database and nothing else. create_appointment*)
(* talks to it three times: the last-id query, the conflict query and the  *)
(* commit. PostgreSQL's default isolation (READ COMMITTED) lets each query *)
(* see what is committed when it runs, so each is one atomic step and the  *)
(* steps of different workers interleave freely.                           *)
(***************************************************************************)
InFlight == {p \in Procs : pc[p] # "idle"}

\* A validated request arrives and the last-id query runs.
ReadLastId(p) ==
    /\ pc[p] = "idle"
    /\ Len(store) + Cardinality(InFlight) < MaxAppts
    /\ \E a \in Requests :
           /\ AppointmentRequest(a)
           /\ req' = [req EXCEPT ![p] = a]
    /\ next_id' = [next_id EXCEPT ![p] = appointment_id_for(store)]
    /\ result' = [result EXCEPT ![p] = 0]
    /\ pc' = [pc EXCEPT ![p] = "check"]
    /\ UNCHANGED <<store, resp>>

\* The conflict query runs; a row found raises the 400 at once.
ConflictQuery(p) ==
    /\ pc[p] = "check"
    /\ IF existing_appointment(store, req[p])
       THEN /\ result' = [result EXCEPT ![p] = 400]
            /\ pc' = [pc EXCEPT ![p] = "idle"]
       ELSE /\ pc' = [pc EXCEPT ![p] = "commit"]
            /\ UNCHANGED result
    /\ UNCHANGED <<store, resp, req, next_id>>

\* db.add and db.commit: the row is stored (201) or the unique constraint
\* refuses it and the except branch answers 500.
CommitAppointment(p) ==
    /\ pc[p] = "commit"
    /\ LET r == Commit(store, Appointment(next_id[p], req[p], "SCHEDULED"))
       IN  /\ store' = r.db
           /\ result' = [result EXCEPT
                  ![p] = IF r.status_code = 200 THEN 201 ELSE r.status_code]
    /\ pc' = [pc EXCEPT ![p] = "idle"]
    /\ UNCHANGED <<resp, req, next_id>>

NextConcurrent ==
    \E p \in Procs :
        \/ ReadLastId(p)
        \/ ConflictQuery(p)
        \/ CommitAppointment(p)

\* Workers start on the empty store or on the store with a long history.
InitConcurrent == Init \/ InitHistory

SpecConcurrent == InitConcurrent /\ [][NextConcurrent]_vars

(***************************************************************************)
(* Properties                                                              *)
(***************************************************************************)
\* Two rows book the same doctor on the same date, neither is CANCELLED, and
\* their half-open intervals [start, end) share an instant.
DoubleBooked(e, f) ==
    /\ e.doctor_id = f.doctor_id
    /\ e.appointment_date = f.appointment_date
    /\ e.status # "CANCELLED"
    /\ f.status # "CANCELLED"
    /\ \E t \in e.appointment_start_time..(e.appointment_end_time - 1) :
           /\ f.appointment_start_time <= t
           /\ t < f.appointment_end_time

\* C1: in every state reached by create_appointment and
\* update_appointment_status calls run one at a time, no two stored
\* appointments of the same doctor and date, both not CANCELLED, overlap.
C1_NoOverlappingAppointments ==
    \A i, j \in 1..Len(store) : i # j => ~DoubleBooked(store[i], store[j])

\* The conflict condition as the specification words it, for a stored row e
\* and a new request a.
SpecConflict(e, a) ==
    /\ e.doctor_id = a.doctor_id
    /\ e.appointment_date = a.appointment_date
    /\ e.status \in Status \ {"CANCELLED"}
    /\ e.appointment_start_time < a.appointment_end_time
    /\ e.appointment_end_time > a.appointment_start_time

\* C2: create_appointment with a request whose end is after its start is
\* rejected with the scheduling-conflict error (400) if and only if the store
\* holds a conflicting row; otherwise it succeeds and stores the request as
\* one new row.
C2_CreateRejectedIffConflict ==
    \A a \in Requests :
        a.appointment_end_time > a.appointment_start_time =>
            LET r == create_appointment(store, a)
                conflict == \E i \in 1..Len(store) : SpecConflict(store[i], a)
            IN  /\ r.status_code = 400 <=> conflict
                /\ conflict => r.db = store
                /\ ~conflict =>
                       /\ r.status_code = 200
                       /\ Len(r.db) = Len(store) + 1
                       /\ SubSeq(r.db, 1, Len(store)) = store
                       /\ LET new == r.db[Len(r.db)]
                          IN  new = Appointment(new.appointment_id, a,
                                                "SCHEDULED")

\* "APT" followed by k zero-padded to 4 digits, digit by digit.
SpecId(k) ==
    IF k < 10000
    THEN <<(k \div 1000) % 10, (k \div 100) % 10, (k \div 10) % 10, k % 10>>
    ELSE str(k)

\* C3: starting from an empty store and with one request at a time, the
\* k-th row stored carries the id APT000k: ids are unique, increase in
\* creation order and leave no gap, whatever rejected creations and status
\* updates came in between; a creation that is rejected stores nothing and
\* the next successful one takes the next id.
C3_SequentialIds ==
    /\ \A k \in 1..Len(store) : store[k].appointment_id = SpecId(k)
    /\ \A a \in Requests :
           LET r == create_new_appointment(store, a)
           IN  IF r.status_code = 201
               THEN /\ Len(r.db) = Len(store) + 1
                    /\ r.db[Len(r.db)].appointment_id = SpecId(Len(store) + 1)
               ELSE r.db = store

\* A second row was stored after the first had its status updated.
C3_Witness ==
    /\ Len(store) >= 2
    /\ store[1].status = "CANCELLED"
    /\ store[2].appointment_id = <<0, 0, 0, 2>>
    /\ resp = [op |-> "create_new_appointment", code |-> 201]

\* C4: update_appointment_status with an appointment_id that is not stored
\* reports 404, not the generic 500, and leaves the store unchanged.
C4_UnknownIdIsNotFound ==
    resp.op = "update_status" =>
        /\ resp.code # 200 => resp.code = 404
        /\ \A id \in AppointmentIds, s \in Status :
               (\A i \in 1..Len(store) : store[i].appointment_id # id) =>
                   LET r == update_appointment_status(store, id, s)
                   IN  r.status_code = 404 /\ r.db = store

\* The hours h of 9..16 whose start lies in no interval [start, end) of a row
\* of the doctor on the date that is not CANCELLED.
SpecOpenHours(doctor_id, date) ==
    {h \in 9..16 :
        ~\E i \in 1..Len(store) :
            /\ store[i].doctor_id = doctor_id
            /\ store[i].appointment_date = date
            /\ store[i].status # "CANCELLED"
            /\ store[i].appointment_start_time <= 60 * h
            /\ 60 * h < store[i].appointment_end_time}

\* C5: get_available_time_slots returns, in ascending order and each once,
\* exactly the hourly slots 09-10 .. 16-17 whose start lies in no interval of
\* a row of that doctor and date that is not CANCELLED.
C5_AvailableSlots ==
    \A doctor_id \in Doctors, date \in Dates :
        LET slots == get_available_time_slots(store, doctor_id, date)
        IN  /\ \A k \in 1..Len(slots) :
                   /\ slots[k].end_time = slots[k].start_time + 60
                   /\ k > 1 => slots[k - 1].start_time < slots[k].start_time
            /\ {slots[k].start_time : k \in 1..Len(slots)}
                   = {60 * h : h \in SpecOpenHours(doctor_id, date)}

\* One booked 09:00-10:00 row of D1 today, a cancelled row over 09:30-10:30
\* beside it, and the slots just queried: D1 has the 7 slots from 10:00 on, the
\* other doctor and the other date have all 8.
C5_Witness ==
    /\ resp = [op |-> "get_available_slots", code |-> 200]
    /\ Len(store) = 2
    /\ \E i, j \in 1..2 :
           /\ store[i] = Appointment(store[i].appointment_id,
                                     Req("D1", "P1", Today, 540, 600),
                                     "SCHEDULED")
           /\ store[j] = Appointment(store[j].appointment_id,
                                     Req("D1", "P2", Today, 570, 630),
                                     "CANCELLED")
    /\ get_available_time_slots(store, "D1", Today)
           = [k \in 1..7 |-> [start_time |-> 540 + 60 * k,
                              end_time |-> 600 + 60 * k]]
    /\ Len(get_available_time_slots(store, "D2", Today)) = 8
    /\ Len(get_available_time_slots(store, "D1", Today + 1)) = 8

\* Every row a listing response carries belongs to the patient.
OnlyRowsOf(r, patient_id) ==
    \A k \in 1..Len(r.body) : r.body[k].patient_id = patient_id

\* C6: a PATIENT caller is refused (403) the listing and the status count of
\* another patient, is served those of the caller's own patient_id, and no
\* query open to the caller returns a row of another patient (the listings
\* are the queries that return rows; a count and a slot list carry none).
C6_PatientSeesOwnOnly ==
    \A u \in Users : u.role = "PATIENT" =>
        /\ \A patient_id \in Patients, s \in Status :
               LET list == get_patient_appointments(store, patient_id, u)
                   count == get_appointment_count_for_patient(
                                store, patient_id, s, u)
               IN  /\ IF patient_id = u.username
                      THEN list.code = 200 /\ count.code = 200
                      ELSE list.code = 403 /\ count.code = 403
                   /\ OnlyRowsOf(list, u.username)
        /\ OnlyRowsOf(get_appointments(store, u), u.username)
        /\ \A id \in AppointmentIds :
               OnlyRowsOf(get_appointment(store, id, u), u.username)

\* C7: every stored appointment ends strictly after it starts: a request with
\* end <= start is refused at validation (422) and stores nothing, and no
\* later operation changes the times.
C7_EndAfterStart ==
    /\ \A i \in 1..Len(store) :
           store[i].appointment_end_time > store[i].appointment_start_time
    /\ \A a \in Requests :
           a.appointment_end_time <= a.appointment_start_time =>
               LET r == create_new_appointment(store, a)
               IN  r.status_code = 422 /\ r.db = store

\* A request was just refused at validation while the store holds rows, one
\* of them with its status updated since.
C7_Witness ==
    /\ resp = [op |-> "create_new_appointment", code |-> 422]
    /\ Len(store) >= 1
    /\ store[1].status = "COMPLETED"
    /\ \E a \in Requests :
           /\ a.appointment_end_time <= a.appointment_start_time
           /\ create_new_appointment(store, a).status_code = 422

\* What one step may do to the store: rows are never removed; a stored row
\* changes in its status field at most; at most one row changes; a new row is
\* appended alone, with status SCHEDULED, leaving the others as they were.
C8_Step ==
    /\ Len(store') >= Len(store)
    /\ \A i \in 1..Len(store) :
           store'[i] = [store[i] EXCEPT !.status = store'[i].status]
    /\ Cardinality({i \in 1..Len(store) : store'[i] # store[i]}) <= 1
    /\ Len(store') > Len(store) =>
           /\ Len(store') = Len(store) + 1
           /\ store'[Len(store')].status = "SCHEDULED"
           /\ SubSeq(store', 1, Len(store)) = store
    /\ {store[i].appointment_id : i \in 1..Len(store)}
           \subseteq {store'[i].appointment_id : i \in 1..Len(store')}

\* What update_appointment_status does to the store: the row it names gets
\* the new status and nothing else changes.
C8_UpdateFrame ==
    \A id \in AppointmentIds, s \in Status :
        LET r == update_appointment_status(store, id, s)
        IN  /\ Len(r.db) = Len(store)
            /\ \A i \in 1..Len(store) :
                   r.db[i] = IF store[i].appointment_id = id
                             THEN [store[i] EXCEPT !.status = s]
                             ELSE store[i]

\* C8: appointments are created SCHEDULED; update_appointment_status changes
\* only the status field of the appointment it names; no operation removes
\* an appointment.
C8_StatusOnlyAndNoDelete == [] C8_UpdateFrame /\ [][C8_Step]_vars

\* An update has just set the first of two rows to CANCELLED.
C8_Witness ==
    /\ resp = [op |-> "update_status", code |-> 200]
    /\ Len(store) = 2
    /\ store[1].status = "CANCELLED"
    /\ store[2].status = "SCHEDULED"

\* C9: update_appointment_status on a stored appointment succeeds and sets
\* the requested status, from every current status to every requested one
\* and whatever the other rows of the doctor and date are.
C9_AnyTransitionSucceeds ==
    \A i \in 1..Len(store), s \in Status :
        LET r == update_appointment_status(store, store[i].appointment_id, s)
        IN  /\ r.status_code = 200
            /\ Len(r.db) = Len(store)
            /\ r.db[i].status = s

\* An update has just brought a CANCELLED appointment back beside a row that
\* took its time range meanwhile, and a COMPLETED row can go back to PENDING.
C9_Witness ==
    /\ resp = [op |-> "update_status", code |-> 200]
    /\ \E i, j \in 1..Len(store) : i # j /\ DoubleBooked(store[i], store[j])
    /\ \E i \in 1..Len(store) :
           /\ store[i].status = "COMPLETED"
           /\ update_appointment_status(
                  store, store[i].appointment_id, "PENDING").status_code = 200

\* Worker q's last creation was stored and is still the row of its request.
Stored(q) ==
    /\ result[q] = 201
    /\ \E i \in 1..Len(store) :
           store[i] = Appointment(next_id[q], req[q], "SCHEDULED")

\* Workers p and q asked for overlapping ranges of one doctor and date and
\* both went past the conflict query to the commit (the only place a 201 or
\* a 500 comes from): each read "no conflict", so neither query ran after a
\* commit of the other's row, which it would have found.
Raced(p, q) ==
    /\ p # q
    /\ DoubleBooked(Appointment(next_id[p], req[p], "SCHEDULED"),
                    Appointment(next_id[q], req[q], "SCHEDULED"))
    /\ pc[p] = "idle" /\ result[p] \in {201, 500}
    /\ pc[q] = "idle" /\ result[q] \in {201, 500}

\* C10 as stated: when two concurrent creations for overlapping ranges of one
\* doctor and date both read "no conflict" before either commits, both
\* succeed and the store ends with a double booking.
C10_RaceDoubleBooks ==
    \A p, q \in Procs :
        Raced(p, q) => result[p] = 201 /\ result[q] = 201

\* C10 as amended: two concurrent creations for overlapping ranges can both
\* read "no conflict" before either commits, but then at most one commit
\* succeeds and the other ends with 500, refused by the unique constraint on
\* appointment_id; concurrent creations never leave two overlapping
\* non-cancelled rows of one doctor and date in the store.
C10_NoDoubleBookingByCreations ==
    /\ \A i, j \in 1..Len(store) : i # j => ~DoubleBooked(store[i], store[j])
    /\ \A p, q \in Procs :
           Raced(p, q) => ~(result[p] = 201 /\ result[q] = 201)

\* Both workers passed the conflict query for overlapping ranges, one was
\* stored and the other got the 500.
C10_Witness ==
    \E p, q \in Procs :
        /\ Raced(p, q)
        /\ Stored(p)
        /\ result[q] = 500
        /\ next_id[p] = next_id[q]

RECURSIVE MaxSuffix(_)
\* The numerically largest suffix among the stored ids, 0 for an empty store.
MaxSuffix(db) ==
    IF Len(db) = 0 THEN 0
    ELSE LET n == int(db[Len(db)].appointment_id)
             m == MaxSuffix(SubSeq(db, 1, Len(db) - 1))
         IN  IF n > m THEN n ELSE m

\* C11: on a store whose ids have reached APT9999, the last id the generator
\* reads is the numerically largest one, and every creation that meets no
\* conflict succeeds with that suffix plus one, written without truncation:
\* APT10000 after APT9999, APT10001 after APT10000.
C11_WidensPast9999 ==
    /\ int(store[last_appointment(store)].appointment_id) = MaxSuffix(store)
    /\ \A a \in Requests :
           AppointmentRequest(a) /\ ~existing_appointment(store, a) =>
               LET r == create_new_appointment(store, a)
               IN  /\ r.status_code = 201
                   /\ r.db[Len(r.db)].appointment_id
                          = str(MaxSuffix(store) + 1)

\* C12: a non-cancelled row that starts strictly inside an hourly slot does
\* not remove that slot from get_available_time_slots (the slot is missing
\* only if another row covers its start); what a row removes is every slot
\* whose start lies in the row's [start, end). With 09:30-10:30 as the only
\* booking of the doctor and date the list is the 8 slots less 10:00-11:00.
C12_StartInstantOnly ==
    \A i \in 1..Len(store) : store[i].status # "CANCELLED" =>
        LET b == store[i]
            slots == get_available_time_slots(store, b.doctor_id,
                                              b.appointment_date)
            Offered(h) == \E k \in 1..Len(slots) : slots[k] = TimeSlot(h)
            Others == booked_slots(
                          SubSeq(store, 1, i - 1)
                              \o SubSeq(store, i + 1, Len(store)),
                          b.doctor_id, b.appointment_date)
        IN  \A h \in 9..(17 - 1) :
                /\ (Hm(h, 0) < b.appointment_start_time
                        /\ b.appointment_start_time < Hm(h + 1, 0)
                        /\ Len(Others) = 0)
                       => Offered(h)
                /\ (b.appointment_start_time <= Hm(h, 0)
                        /\ Hm(h, 0) < b.appointment_end_time)
                       => ~Offered(h)
                /\ (Len(Others) = 0
                        /\ ~(b.appointment_start_time <= Hm(h, 0)
                                /\ Hm(h, 0) < b.appointment_end_time))
                       => Offered(h)

\* The only booking of D1 today is 09:30-10:30 and the slots were just
\* queried: 09:00-10:00 is offered, 10:00-11:00 is not, 7 slots in all.
C12_Witness ==
    /\ resp = [op |-> "get_available_slots", code |-> 200]
    /\ Len(booked_slots(store, "D1", Today)) = 1
    /\ booked_slots(store, "D1", Today)
           = <<Appointment(booked_slots(store, "D1", Today)[1].appointment_id,
                           Req("D1", "P2", Today, Hm(9, 30), Hm(10, 30)),
                           "SCHEDULED")>>
    /\ LET slots == get_available_time_slots(store, "D1", Today)
       IN  /\ Len(slots) = 17 - 9 - 1
           /\ slots[1] = TimeSlot(9)
           /\ slots[2] = TimeSlot(11)

\* C13: under every interleaving of concurrent creations no two stored rows
\* share an appointment_id; of two requests that computed the same id and
\* both reached the commit at most one got 201; and a commit of an id that
\* is already stored ends with 500 and leaves the store as it was.
C13_IdsUniqueUnderRaces ==
    /\ \A i, j \in 1..Len(store) :
           i # j => store[i].appointment_id # store[j].appointment_id
    /\ \A p, q \in Procs :
           (/\ p # q
            /\ next_id[p] = next_id[q]
            /\ pc[p] = "idle" /\ result[p] \in {201, 500}
            /\ pc[q] = "idle" /\ result[q] \in {201, 500})
               => ~(result[p] = 201 /\ result[q] = 201)
    /\ \A p \in Procs : pc[p] = "commit" =>
           LET row == Appointment(next_id[p], req[p], "SCHEDULED")
               r == Commit(store, row)
           IN  IF \E i \in 1..Len(store) :
                      store[i].appointment_id = next_id[p]
               THEN r.status_code = 500 /\ r.db = store
               ELSE r.status_code = 200 /\ r.db = Append(store, row)

\* Two workers asked for different doctors, so neither conflict query could
\* stop the other; both computed the same id; one row is stored and the
\* other worker got the 500.
C13_Witness ==
    \E p, q \in Procs :
        /\ p # q
        /\ req[p].doctor_id # req[q].doctor_id
        /\ next_id[p] = next_id[q]
        /\ pc[p] = "idle" /\ pc[q] = "idle"
        /\ Stored(p)
        /\ result[q] = 500
        /\ Cardinality({i \in 1..Len(store) :
                            store[i].appointment_id = next_id[q]}) = 1

\* C14: if one of the 8 hourly slots is missing from the result of
\* get_available_time_slots for a doctor and date, then create_appointment
\* for exactly that slot, same doctor and date, in the same state is
\* rejected with the scheduling-conflict error (400) and stores nothing.
C14_HiddenSlotIsNotBookable ==
    \A doctor_id \in Doctors, date \in Dates, h \in 9..(17 - 1) :
        LET slots == get_available_time_slots(store, doctor_id, date)
        IN  (~\E k \in 1..Len(slots) : slots[k] = TimeSlot(h)) =>
                \A patient_id \in Patients :
                    LET r == create_appointment(
                                 store,
                                 Req(doctor_id, patient_id, date,
                                     TimeSlot(h).start_time,
                                     TimeSlot(h).end_time))
                    IN  r.status_code = 400 /\ r.db = store

\* A creation was just rejected with 400 while D1 has the rows 09:00-10:00
\* (cancelled) and 09:30-10:30 (booked): the 10:00-11:00 slot is hidden and
\* the request for it is the rejected kind; the 09:00-10:00 slot is offered.
C14_Witness ==
    /\ resp = [op |-> "create_new_appointment", code |-> 400]
    /\ \E i \in 1..Len(store) :
           /\ store[i].status = "CANCELLED"
           /\ store[i].doctor_id = "D1"
    /\ LET slots == get_available_time_slots(store, "D1", Today)
       IN  /\ Len(slots) = 17 - 9 - 1
           /\ slots[1] = TimeSlot(9)
           /\ slots[2] = TimeSlot(11)
    /\ create_appointment(store, Req("D1", "P1", Today, Hm(10, 0), Hm(11, 0)))
           .status_code = 400

====
